---------------------------- MODULE Spec2Model ----------------------------
(***************************************************************************)
(* The in-memory calendar manager of Calendar-Imp.py: Event, Calendar,     *)
(* User, CalendarsApp and the two menu loops main() and user_menu().       *)
(*                                                                         *)
(* Objects are modelled by their fields.  A method that mutates its        *)
(* receiver is an operator returning [self |-> receiver afterwards,        *)
(* ret |-> returned value].  A dict is a function whose DOMAIN is its key  *)
(* set.  Text typed at a prompt is a TLA+ string for names, titles and     *)
(* descriptions (already stripped) and a sequence of one-character         *)
(* strings for date/time text, which the menu strips and parses.           *)
(***************************************************************************)
EXTENDS Integers, Sequences, FiniteSets, TLC

VARIABLES
    users,      \* app.users of main(): dict username -> User
    pc,         \* which loop is prompting: "main", "user_menu" or "exit"
    cur,        \* username of the User object user_menu() was called with ("" in main)
    out,        \* the last menu choice made and what it did (see Out)
    lastCall,   \* history: for each username, the last create/delete naming it
    lost        \* history: the calendar last destroyed while it held events

vars == <<users, pc, cur, out, lastCall, lost>>

-----------------------------------------------------------------------------
(* Bounds of the exploration *)

\* most events held by all calendars together, whole-program exploration
MaxAppEvents == 2
\* most events held by the calendars of the user, one-user exploration
MaxUserEvents == 2
\* most events in the calendar of the single-calendar exploration
MaxEvents == 3

Usernames == {"alice", "bob"}
CalNames  == {"work", "personal"}
Titles    == {"standup", "lunch"}

-----------------------------------------------------------------------------
(* Event *)

\* Event.__init__
Event(title, start_time, end_time, description) ==
    [title |-> title, start_time |-> start_time,
     end_time |-> end_time, description |-> description]

\* A keyword argument that was not passed (or passed as None) is a key that
\* is not in the DOMAIN of fields.
Given(fields, k) == k \in DOMAIN fields

\* as Event.update_event, testing "if description:" where the code tests
\* "is not None": an empty description that is given is not assigned
Event_update_event_truthy(self, fields) ==
    [title       |-> IF Given(fields, "title") THEN fields["title"] ELSE self.title,
     start_time  |-> IF Given(fields, "start_time") THEN fields["start_time"]
                     ELSE self.start_time,
     end_time    |-> IF Given(fields, "end_time") THEN fields["end_time"]
                     ELSE self.end_time,
     description |-> IF Given(fields, "description") /\ fields["description"] # ""
                     THEN fields["description"]
                     ELSE self.description]

\* Event.update_event(**fields): every keyword that is not None is assigned
Event_update_event(self, fields) ==
    [title       |-> IF Given(fields, "title") THEN fields["title"] ELSE self.title,
     start_time  |-> IF Given(fields, "start_time") THEN fields["start_time"]
                     ELSE self.start_time,
     end_time    |-> IF Given(fields, "end_time") THEN fields["end_time"]
                     ELSE self.end_time,
     description |-> IF Given(fields, "description") THEN fields["description"]
                     ELSE self.description]

\* Event.matches_title
matches_title(self, title) == self.title = title

\* DefaultEventFactory.create_event
create_event(title, start_time, end_time, description) ==
    Event(title, start_time, end_time, description)

-----------------------------------------------------------------------------
(* Calendar *)

\* Calendar.__init__ (event_factory is always the DefaultEventFactory)
Calendar(name) == [name |-> name, events |-> <<>>]

\* Calendar.add_event
add_event(self, event) ==
    [self |-> [self EXCEPT !.events = Append(self.events, event)], ret |-> "None"]

\* the for loop of Calendar.remove_event, from index i on
RECURSIVE remove_event_loop(_, _, _)
remove_event_loop(self, event_title, i) ==
    IF i > Len(self.events)
    THEN [self |-> self, ret |-> FALSE]
    ELSE IF matches_title(self.events[i], event_title)
         THEN [self |-> [self EXCEPT !.events =
                            SubSeq(self.events, 1, i - 1)
                            \o SubSeq(self.events, i + 1, Len(self.events))],
               ret |-> TRUE]
         ELSE remove_event_loop(self, event_title, i + 1)

\* as Calendar.remove_event, scanning from the end: the last match is deleted
remove_event_last(self, event_title) ==
    LET hits == {i \in 1..Len(self.events) : matches_title(self.events[i], event_title)}
    IN  IF hits = {} THEN [self |-> self, ret |-> FALSE]
        ELSE LET i == CHOOSE k \in hits : \A j \in hits : j <= k IN
             [self |-> [self EXCEPT !.events =
                           SubSeq(self.events, 1, i - 1)
                           \o SubSeq(self.events, i + 1, Len(self.events))],
              ret |-> TRUE]

\* Calendar.remove_event
remove_event(self, event_title) == remove_event_loop(self, event_title, 1)

\* the for loop of Calendar.update_event, from index i on
RECURSIVE update_event_loop(_, _, _, _)
update_event_loop(self, event_title, update_fields, i) ==
    IF i > Len(self.events)
    THEN [self |-> self, ret |-> FALSE]
    ELSE IF matches_title(self.events[i], event_title)
         THEN [self |-> [self EXCEPT !.events[i] =
                            Event_update_event(self.events[i], update_fields)],
               ret |-> TRUE]
         ELSE update_event_loop(self, event_title, update_fields, i + 1)

\* Calendar.update_event
Calendar_update_event(self, event_title, update_fields) ==
    update_event_loop(self, event_title, update_fields, 1)

-----------------------------------------------------------------------------
(* User *)

\* dict.pop(k) / del: the dict without key k
DictPop(d, k) == [x \in DOMAIN d \ {k} |-> d[x]]

\* d[k] = v
DictSet(d, k, v) == [x \in DOMAIN d \cup {k} |-> IF x = k THEN v ELSE d[x]]

\* the empty dict {}
EmptyDict == [x \in {} |-> x]

\* User.__init__
User(username) == [username |-> username, calendars |-> EmptyDict]

\* User.factory_create_calendar
factory_create_calendar(self, calendar_name) == Calendar(calendar_name)

\* User.create_calendar
create_calendar(self, calendar_name) ==
    IF calendar_name \in DOMAIN self.calendars
    THEN [self |-> self, ret |-> FALSE]
    ELSE [self |-> [self EXCEPT !.calendars =
                       DictSet(self.calendars, calendar_name,
                               factory_create_calendar(self, calendar_name))],
          ret |-> TRUE]

\* as User.remove_calendar, with get where the code has pop: nothing is removed
remove_calendar_get(self, calendar_name) ==
    [self |-> self, ret |-> calendar_name \in DOMAIN self.calendars]

\* User.remove_calendar: pop(calendar_name, None) is not None
remove_calendar(self, calendar_name) ==
    [self |-> [self EXCEPT !.calendars = DictPop(self.calendars, calendar_name)],
     ret  |-> calendar_name \in DOMAIN self.calendars]

\* as User.update_calendar_name, without "cal.name = new_name"
update_calendar_name_stale(self, old_name, new_name) ==
    IF old_name \notin DOMAIN self.calendars \/ new_name \in DOMAIN self.calendars
    THEN [self |-> self, ret |-> FALSE]
    ELSE [self |-> [self EXCEPT !.calendars =
                       DictSet(DictPop(self.calendars, old_name), new_name,
                               self.calendars[old_name])],
          ret |-> TRUE]

\* as User.update_calendar_name, without the test "new_name in self.calendars"
update_calendar_name_unchecked(self, old_name, new_name) ==
    IF old_name \notin DOMAIN self.calendars
    THEN [self |-> self, ret |-> FALSE]
    ELSE [self |-> [self EXCEPT !.calendars =
                       DictSet(DictPop(self.calendars, old_name), new_name,
                               [self.calendars[old_name] EXCEPT !.name = new_name])],
          ret |-> TRUE]

\* as User.update_calendar_name, reading calendars[old_name] where the code
\* pops it: the calendar stays under old_name as well
update_calendar_name_kept(self, old_name, new_name) ==
    IF old_name \notin DOMAIN self.calendars \/ new_name \in DOMAIN self.calendars
    THEN [self |-> self, ret |-> FALSE]
    ELSE [self |-> [self EXCEPT !.calendars =
                       DictSet(self.calendars, new_name,
                               [self.calendars[old_name] EXCEPT !.name = new_name])],
          ret |-> TRUE]

\* User.update_calendar_name
update_calendar_name(self, old_name, new_name) ==
    IF old_name \notin DOMAIN self.calendars \/ new_name \in DOMAIN self.calendars
    THEN [self |-> self, ret |-> FALSE]
    ELSE LET cal == self.calendars[old_name]
             popped == DictPop(self.calendars, old_name)
             renamed == [cal EXCEPT !.name = new_name]
         IN  [self |-> [self EXCEPT !.calendars = DictSet(popped, new_name, renamed)],
              ret |-> TRUE]

-----------------------------------------------------------------------------
(* CalendarsApp: self is the users dict *)

\* CalendarsApp.__init__
CalendarsApp == EmptyDict

\* as CalendarsApp.create_user, assigning the new User before the test: an
\* existing user is replaced by an empty one
create_user_overwrites(self, username) ==
    [self |-> DictSet(self, username, User(username)),
     ret  |-> username \notin DOMAIN self]

\* CalendarsApp.create_user
create_user(self, username) ==
    IF username \in DOMAIN self
    THEN [self |-> self, ret |-> FALSE]
    ELSE [self |-> DictSet(self, username, User(username)), ret |-> TRUE]

\* CalendarsApp.get_user: users.get(username); <<>> is None, <<u>> is the User
get_user(self, username) ==
    [self |-> self,
     ret  |-> IF username \in DOMAIN self THEN <<self[username]>> ELSE <<>>]

\* as CalendarsApp.delete_user, with get where the code has pop
delete_user_get(self, username) ==
    [self |-> self, ret |-> username \in DOMAIN self]

\* CalendarsApp.delete_user: pop(username, None) is not None
delete_user(self, username) ==
    [self |-> DictPop(self, username), ret |-> username \in DOMAIN self]

\* CalendarsApp.list_users: the keys (their order is not modelled)
list_users(self) == [self |-> self, ret |-> DOMAIN self]

-----------------------------------------------------------------------------
(* Text typed at a date/time prompt, and datetime.strptime *)

IsSpace(c) == c = " "

Digits == {"0", "1", "2", "3", "4", "5", "6", "7", "8", "9"}

DigitVal(c) ==
    CASE c = "1" -> 1 [] c = "2" -> 2 [] c = "3" -> 3 [] c = "4" -> 4
      [] c = "5" -> 5 [] c = "6" -> 6 [] c = "7" -> 7 [] c = "8" -> 8
      [] c = "9" -> 9 [] OTHER -> 0

\* int(token) of a matched group: decimal digits, a leading blank ignored
RECURSIVE IntOf(_)
IntOf(tok) ==
    IF tok = <<>> THEN 0
    ELSE IntOf(SubSeq(tok, 1, Len(tok) - 1)) * 10 + DigitVal(tok[Len(tok)])

\* str.strip(): leading and trailing blanks removed
RECURSIVE strip(_)
strip(s) ==
    IF s = <<>> THEN s
    ELSE IF IsSpace(s[1]) THEN strip(Tail(s))
    ELSE IF IsSpace(s[Len(s)]) THEN strip(SubSeq(s, 1, Len(s) - 1))
    ELSE s

\* %Y : \d\d\d\d
re_Y(t) == Len(t) = 4 /\ \A i \in 1..4 : t[i] \in Digits

\* %m : 1[0-2]|0[1-9]|[1-9]
re_m(t) ==
    \/ Len(t) = 2 /\ t[1] = "1" /\ t[2] \in {"0", "1", "2"}
    \/ Len(t) = 2 /\ t[1] = "0" /\ t[2] \in Digits \ {"0"}
    \/ Len(t) = 1 /\ t[1] \in Digits \ {"0"}

\* %d : 3[0-1]|[1-2]\d|0[1-9]|[1-9]| [1-9]
re_d(t) ==
    \/ Len(t) = 2 /\ t[1] = "3" /\ t[2] \in {"0", "1"}
    \/ Len(t) = 2 /\ t[1] \in {"1", "2"} /\ t[2] \in Digits
    \/ Len(t) = 2 /\ t[1] = "0" /\ t[2] \in Digits \ {"0"}
    \/ Len(t) = 1 /\ t[1] \in Digits \ {"0"}
    \/ Len(t) = 2 /\ t[1] = " " /\ t[2] \in Digits \ {"0"}

\* %H : 2[0-3]|[0-1]\d|\d
re_H(t) ==
    \/ Len(t) = 2 /\ t[1] = "2" /\ t[2] \in {"0", "1", "2", "3"}
    \/ Len(t) = 2 /\ t[1] \in {"0", "1"} /\ t[2] \in Digits
    \/ Len(t) = 1 /\ t[1] \in Digits

\* %M : [0-5]\d|\d
re_M(t) ==
    \/ Len(t) = 2 /\ t[1] \in {"0", "1", "2", "3", "4", "5"} /\ t[2] \in Digits
    \/ Len(t) = 1 /\ t[1] \in Digits

\* the index of the first character of s at or after p that is not a blank
RECURSIVE SkipSpaces(_, _)
SkipSpaces(s, p) ==
    IF p <= Len(s) /\ IsSpace(s[p]) THEN SkipSpaces(s, p + 1) ELSE p

IsLeap(year) == (year % 4 = 0 /\ year % 100 # 0) \/ year % 400 = 0

DaysInMonth(year, month) ==
    IF month = 2 THEN (IF IsLeap(year) THEN 29 ELSE 28)
    ELSE IF month \in {4, 6, 9, 11} THEN 30 ELSE 31

\* datetime(year, month, day, hour, minute): <<the value>>, or <<>> for the
\* ValueError of a year or a day out of range
datetime(year, month, day, hour, minute) ==
    IF year >= 1 /\ year <= 9999 /\ month \in 1..12
       /\ day >= 1 /\ day <= DaysInMonth(year, month)
       /\ hour \in 0..23 /\ minute \in 0..59
    THEN <<[year |-> year, month |-> month, day |-> day,
            hour |-> hour, minute |-> minute]>>
    ELSE <<>>

\* datetime.strptime(data_string, "%Y-%m-%d %H:%M"): <<the datetime>>, or <<>>
\* for ValueError.  The format's regular expression is matched from the start
\* of the text (the blank of the format is \s+), the match must end where the
\* text ends, and the fields must make a date that exists.
strptime(data_string) ==
    LET s == data_string
        n == Len(s)
        At(i) == IF i \in 1..n THEN s[i] ELSE ""
        Tok(p, k) == SubSeq(s, p, p + k - 1)
        \* lengths of the token at p that match re and are followed by sep
        Fits(p, re(_), sep) ==
            {k \in 1..2 : p + k - 1 <= n /\ re(Tok(p, k)) /\ At(p + k) = sep}
        Pick(ks) == CHOOSE k \in ks : \A j \in ks : j <= k
    IN
    IF ~(n >= 5 /\ re_Y(Tok(1, 4)) /\ At(5) = "-") THEN <<>> ELSE
    LET km == Fits(6, re_m, "-") IN
    IF km = {} THEN <<>> ELSE
    LET pd == 6 + Pick(km) + 1
        kd == Fits(pd, re_d, " ")
    IN
    IF kd = {} THEN <<>> ELSE
    LET pH == SkipSpaces(s, pd + Pick(kd))
        kH == Fits(pH, re_H, ":")
    IN
    IF kH = {} THEN <<>> ELSE
    LET pM == pH + Pick(kH) + 1
        \* the last group takes its first alternative that matches
        kM == {k \in 1..2 : pM + k - 1 <= n /\ re_M(Tok(pM, k))}
    IN
    IF kM = {} THEN <<>>
    ELSE IF pM + Pick(kM) - 1 # n THEN <<>>   \* unconverted data remains
    ELSE datetime(IntOf(Tok(1, 4)), IntOf(Tok(6, Pick(km))),
                  IntOf(Tok(pd, Pick(kd))), IntOf(Tok(pH, Pick(kH))),
                  IntOf(Tok(pM, Pick(kM))))

-----------------------------------------------------------------------------
(* The texts typed at the date/time prompts *)

\* "2024-01-01 09:00"
Text0900 == <<"2", "0", "2", "4", "-", "0", "1", "-", "0", "1", " ",
              "0", "9", ":", "0", "0">>
\* " 2024-1-1 9:30 ": blanks around it, fields of one digit
Text0930 == <<" ", "2", "0", "2", "4", "-", "1", "-", "1", " ",
              "9", ":", "3", "0", " ">>
\* "2024-02-30 09:00": matches the format, but is no date
TextFeb30 == <<"2", "0", "2", "4", "-", "0", "2", "-", "3", "0", " ",
               "0", "9", ":", "0", "0">>
\* "2024-01-01": the time is missing
TextNoTime == <<"2", "0", "2", "4", "-", "0", "1", "-", "0", "1">>
\* "": enter pressed
TextEmpty == <<>>

Texts == {Text0900, Text0930, TextFeb30, TextNoTime, TextEmpty}

\* input(...).strip() of a typed text, tabulated over the texts typed
stripped == [t \in Texts |-> strip(t)]

\* datetime.strptime(..., "%Y-%m-%d %H:%M") of a stripped text, tabulated over
\* the texts typed
parsed == [t \in {stripped[x] : x \in Texts} |-> strptime(t)]

-----------------------------------------------------------------------------
(* The menus.  A choice of user_menu(user) is an operator on the User it    *)
(* was called with, returning the User afterwards and what was printed.     *)

\* the value a core method returned, as the menu tests it
Bool(b) == IF b THEN "True" ELSE "False"

\* What a menu choice did: the menu and the choice typed, the message
\* printed, the value the core method returned ("None" when none was called)
\* and the names it was called with ("" when there is none).
Out(menu, choice, text, ret, arg, arg2) ==
    [menu |-> menu, choice |-> choice, text |-> text, ret |-> ret,
     arg |-> arg, arg2 |-> arg2]

\* calendar.<method>(...) on user.calendars[cal_name], which the menu holds
WithCalendar(user, cal_name, calendar) ==
    [user EXCEPT !.calendars = DictSet(user.calendars, cal_name, calendar)]

\* choice "1": create a calendar
user_menu_1(user, cal_name) ==
    LET r == create_calendar(user, cal_name) IN
    [self |-> r.self,
     out  |-> Out("user_menu", "1",
                  IF r.ret THEN "Calendar created." ELSE "A calendar named already exists.",
                  Bool(r.ret), cal_name, "")]

\* choice "2": remove a calendar
user_menu_2(user, cal_name) ==
    LET r == remove_calendar(user, cal_name) IN
    [self |-> r.self,
     out  |-> Out("user_menu", "2",
                  IF r.ret THEN "Calendar removed." ELSE "No calendar found.",
                  Bool(r.ret), cal_name, "")]

\* choice "3": list calendars and events
user_menu_3(user) ==
    [self |-> user,
     out  |-> Out("user_menu", "3",
                  IF DOMAIN user.calendars = {} THEN "No calendars available."
                  ELSE "Calendar:", "None", "", "")]

\* choice "4": add an event to a calendar
user_menu_4(user, cal_name, title, start_raw, end_raw, description) ==
    IF cal_name \notin DOMAIN user.calendars
    THEN [self |-> user,
          out |-> Out("user_menu", "4", "No calendar found.", "None", "", "")]
    ELSE
    LET calendar == user.calendars[cal_name]
        start_dt == parsed[stripped[start_raw]]
        end_dt   == parsed[stripped[end_raw]]
    IN
    \* the second strptime is not reached when the first one raises
    IF start_dt = <<>> \/ end_dt = <<>>
    THEN [self |-> user,
          out |-> Out("user_menu", "4", "Invalid date/time format.", "None", "", "")]
    ELSE
    LET new_event == create_event(title, start_dt[1], end_dt[1], description)
        r == add_event(calendar, new_event)
    IN  [self |-> WithCalendar(user, cal_name, r.self),
         out  |-> Out("user_menu", "4", "Event added to calendar.", "None", title, "")]

\* choice "5": remove an event from a calendar
user_menu_5(user, cal_name, evt_title) ==
    IF cal_name \notin DOMAIN user.calendars
    THEN [self |-> user,
          out |-> Out("user_menu", "5", "No calendar found.", "None", "", "")]
    ELSE
    LET r == remove_event(user.calendars[cal_name], evt_title) IN
    [self |-> WithCalendar(user, cal_name, r.self),
     out  |-> Out("user_menu", "5",
                  IF r.ret THEN "Removed event." ELSE "Event not found.",
                  Bool(r.ret), evt_title, "")]

\* as update_fields of choice "6", with one try around both times and the
\* description: a start that fails to parse skips what follows it
update_fields_of_one_try(new_title, start_raw, end_raw, desc_str) ==
    LET start_str == stripped[start_raw]
        end_str   == stripped[end_raw]
        f1 == IF new_title # "" THEN DictSet(EmptyDict, "title", new_title)
              ELSE EmptyDict
        f2 == IF start_str # <<>> THEN DictSet(f1, "start_time", parsed[start_str][1])
              ELSE f1
        f3 == IF end_str # <<>> /\ parsed[end_str] # <<>>
              THEN DictSet(f2, "end_time", parsed[end_str][1]) ELSE f2
    IN  IF start_str # <<>> /\ parsed[start_str] = <<>> THEN f1
        ELSE IF desc_str # "" THEN DictSet(f3, "description", desc_str) ELSE f3

\* update_fields of choice "6": a key for every answer that is not empty
\* and, for the two times, parses
update_fields_of(new_title, start_raw, end_raw, desc_str) ==
    LET start_str == stripped[start_raw]
        end_str   == stripped[end_raw]
        f1 == IF new_title # "" THEN DictSet(EmptyDict, "title", new_title)
              ELSE EmptyDict
        f2 == IF start_str # <<>> /\ parsed[start_str] # <<>>
              THEN DictSet(f1, "start_time", parsed[start_str][1]) ELSE f1
        f3 == IF end_str # <<>> /\ parsed[end_str] # <<>>
              THEN DictSet(f2, "end_time", parsed[end_str][1]) ELSE f2
    IN  IF desc_str # "" THEN DictSet(f3, "description", desc_str) ELSE f3

\* choice "6": update an event
user_menu_6(user, cal_name, evt_title, new_title, start_raw, end_raw, desc_str) ==
    IF cal_name \notin DOMAIN user.calendars
    THEN [self |-> user,
          out |-> Out("user_menu", "6", "No calendar found.", "None", "", "")]
    ELSE
    LET update_fields == update_fields_of(new_title, start_raw, end_raw, desc_str)
        r == Calendar_update_event(user.calendars[cal_name], evt_title, update_fields)
    IN  [self |-> WithCalendar(user, cal_name, r.self),
         out  |-> Out("user_menu", "6",
                      IF r.ret THEN "Event updated." ELSE "No event found.",
                      Bool(r.ret), evt_title, "")]

\* choice "7": rename a calendar
user_menu_7(user, old_name, new_name) ==
    LET r == update_calendar_name(user, old_name, new_name) IN
    [self |-> r.self,
     out  |-> Out("user_menu", "7",
                  IF r.ret THEN "Renamed." ELSE "Rename failed.",
                  Bool(r.ret), old_name, new_name)]

-----------------------------------------------------------------------------
(* The sets the prompts are answered from *)

\* whole-program exploration: few event values, so that users and calendars vary
AppDates     == {Text0900, TextNoTime}
AppNewTitles == {"", "lunch"}

\* one-user exploration: a third calendar name
UserCalNames == CalNames \cup {"home"}

\* single-calendar exploration: the fields of an event vary
CalStarts       == {Text0900, Text0930, TextFeb30, TextEmpty}
CalEnds         == {Text0930, TextNoTime}
CalNewStarts    == {TextEmpty, Text0900, Text0930, TextFeb30}
CalNewEnds      == {TextEmpty, TextNoTime}
CalDescriptions == {"", "sync"}

\* the events held by all calendars of all users together
RECURSIVE SumOver(_, _)
SumOver(S, f) ==
    IF S = {} THEN 0
    ELSE LET x == CHOOSE y \in S : TRUE IN f[x] + SumOver(S \ {x}, f)

EventsOf(user) ==
    SumOver(DOMAIN user.calendars,
            [c \in DOMAIN user.calendars |-> Len(user.calendars[c].events)])

TotalEvents(us) == SumOver(DOMAIN us, [u \in DOMAIN us |-> EventsOf(us[u])])

-----------------------------------------------------------------------------
(* main(): one action per choice of the main menu *)

\* choice "1"
main_create_user(username) ==
    /\ pc = "main"
    /\ LET r == create_user(users, username) IN
       /\ users' = r.self
       /\ out' = Out("main", "1",
                     IF r.ret THEN "User created successfully."
                     ELSE "User already exists.",
                     Bool(r.ret), username, "")
    /\ lastCall' = [lastCall EXCEPT ![username] = "create"]
    /\ UNCHANGED <<pc, cur, lost>>

\* choice "2": user_menu(user) is entered when get_user found the user
main_switch_user(username) ==
    /\ pc = "main"
    /\ LET r == get_user(users, username) IN
       /\ users' = r.self
       /\ IF r.ret # <<>>
          THEN /\ pc' = "user_menu"
               /\ cur' = r.ret[1].username
               /\ out' = Out("main", "2", "Menu", "User", username, "")
          ELSE /\ out' = Out("main", "2", "No user found.", "None", username, "")
               /\ UNCHANGED <<pc, cur>>
    /\ UNCHANGED <<lastCall, lost>>

\* choice "3"
main_list_users ==
    /\ pc = "main"
    /\ LET r == list_users(users) IN
       /\ users' = r.self
       /\ out' = Out("main", "3",
                     IF r.ret # {} THEN "Current users:"
                     ELSE "No users in the system yet.",
                     "list", "", "")
    /\ UNCHANGED <<pc, cur, lastCall, lost>>

\* choice "4"
main_delete_user(username) ==
    /\ pc = "main"
    /\ LET r == delete_user(users, username) IN
       /\ users' = r.self
       /\ out' = Out("main", "4",
                     IF r.ret THEN "User deleted." ELSE "No user found.",
                     Bool(r.ret), username, "")
    /\ lastCall' = [lastCall EXCEPT ![username] = "delete"]
    /\ UNCHANGED <<pc, cur, lost>>

\* choice "5"
main_exit ==
    /\ pc = "main"
    /\ pc' = "exit"
    /\ out' = Out("main", "5", "Exiting program. All data is lost.", "None", "", "")
    /\ UNCHANGED <<users, cur, lastCall, lost>>

\* any other choice
main_invalid_choice ==
    /\ pc = "main"
    /\ out' = Out("main", "other", "Invalid choice. Please try again.", "None", "", "")
    /\ UNCHANGED <<users, pc, cur, lastCall, lost>>

-----------------------------------------------------------------------------
(* user_menu(user): one action per choice; user is the object users[cur] *)

\* as the step of user_menu, had calendars been an attribute of the class
\* User and not of the object: every user sees the change
UserMenuStep_shared(r) ==
    /\ users' = [u \in DOMAIN users |->
                    [users[u] EXCEPT !.calendars = r.self.calendars]]
    /\ out' = r.out
    /\ UNCHANGED <<pc, cur, lastCall>>

\* the loop goes round: the choice r was applied to the user
UserMenuStep(r) ==
    /\ users' = [users EXCEPT ![cur] = r.self]
    /\ out' = r.out
    /\ UNCHANGED <<pc, cur, lastCall>>

user_menu_create_calendar(cal_name) ==
    /\ pc = "user_menu"
    /\ UserMenuStep(user_menu_1(users[cur], cal_name))
    /\ UNCHANGED lost

user_menu_remove_calendar(cal_name) ==
    /\ pc = "user_menu"
    /\ UserMenuStep(user_menu_2(users[cur], cal_name))
    /\ lost' = IF /\ cal_name \in DOMAIN users[cur].calendars
                  /\ users[cur].calendars[cal_name].events # <<>>
               THEN <<cur, cal_name>> ELSE lost

user_menu_list_calendars ==
    /\ pc = "user_menu"
    /\ UserMenuStep(user_menu_3(users[cur]))
    /\ UNCHANGED lost

user_menu_add_event(cal_name, title, start_raw, end_raw, description) ==
    /\ pc = "user_menu"
    /\ UserMenuStep(user_menu_4(users[cur], cal_name, title, start_raw, end_raw,
                                description))
    /\ UNCHANGED lost

user_menu_remove_event(cal_name, evt_title) ==
    /\ pc = "user_menu"
    /\ UserMenuStep(user_menu_5(users[cur], cal_name, evt_title))
    /\ UNCHANGED lost

user_menu_update_event(cal_name, evt_title, new_title, start_raw, end_raw, desc_str) ==
    /\ pc = "user_menu"
    /\ UserMenuStep(user_menu_6(users[cur], cal_name, evt_title, new_title,
                                start_raw, end_raw, desc_str))
    /\ UNCHANGED lost

user_menu_rename_calendar(old_name, new_name) ==
    /\ pc = "user_menu"
    /\ UserMenuStep(user_menu_7(users[cur], old_name, new_name))
    /\ UNCHANGED lost

\* choice "8": back to the main menu
user_menu_go_back ==
    /\ pc = "user_menu"
    /\ pc' = "main"
    /\ cur' = ""
    /\ out' = Out("user_menu", "8", "", "None", "", "")
    /\ UNCHANGED <<users, lastCall, lost>>

\* any other choice
user_menu_invalid_choice ==
    /\ pc = "user_menu"
    /\ out' = Out("user_menu", "other", "Invalid choice.", "None", "", "")
    /\ UNCHANGED <<users, pc, cur, lastCall, lost>>

-----------------------------------------------------------------------------
(* The whole program, from its start *)

Init ==
    /\ users = CalendarsApp
    /\ pc = "main"
    /\ cur = ""
    /\ out = Out("", "", "", "None", "", "")
    /\ lastCall = [n \in Usernames |-> "none"]
    /\ lost = <<>>

Next ==
    \/ \E username \in Usernames : main_create_user(username)
    \/ \E username \in Usernames : main_switch_user(username)
    \/ main_list_users
    \/ \E username \in Usernames : main_delete_user(username)
    \/ main_exit
    \/ main_invalid_choice
    \/ \E cal_name \in CalNames : user_menu_create_calendar(cal_name)
    \/ \E cal_name \in CalNames : user_menu_remove_calendar(cal_name)
    \/ user_menu_list_calendars
    \/ \E cal_name \in CalNames, title \in Titles, start_raw, end_raw \in AppDates :
          /\ user_menu_add_event(cal_name, title, start_raw, end_raw, "")
          /\ TotalEvents(users') <= MaxAppEvents
    \/ \E cal_name \in CalNames, evt_title \in Titles :
          user_menu_remove_event(cal_name, evt_title)
    \/ \E cal_name \in CalNames, evt_title \in Titles, new_title \in AppNewTitles,
          end_raw \in AppDates :
          user_menu_update_event(cal_name, evt_title, new_title, TextEmpty, end_raw, "")
    \/ \E old_name, new_name \in CalNames : user_menu_rename_calendar(old_name, new_name)
    \/ user_menu_go_back
    \/ user_menu_invalid_choice

Spec == Init /\ [][Next]_vars

-----------------------------------------------------------------------------
(* One user: alice has been created and is in her menu, where calendars    *)
(* are created, removed and renamed and hold a few events.                 *)

InitUser ==
    /\ users = create_user(CalendarsApp, "alice").self
    /\ pc = "user_menu"
    /\ cur = "alice"
    /\ out = Out("main", "2", "Menu", "User", "alice", "")
    /\ lastCall = [n \in Usernames |-> IF n = "alice" THEN "create" ELSE "none"]
    /\ lost = <<>>

NextUser ==
    \/ \E cal_name \in UserCalNames : user_menu_create_calendar(cal_name)
    \/ \E cal_name \in UserCalNames : user_menu_remove_calendar(cal_name)
    \/ user_menu_list_calendars
    \/ \E cal_name \in UserCalNames, title \in Titles, start_raw \in AppDates :
          /\ user_menu_add_event(cal_name, title, start_raw, Text0930, "")
          /\ TotalEvents(users') <= MaxUserEvents
    \/ \E cal_name \in UserCalNames, evt_title \in Titles :
          user_menu_remove_event(cal_name, evt_title)
    \/ \E cal_name \in UserCalNames, evt_title \in Titles, new_title \in AppNewTitles :
          user_menu_update_event(cal_name, evt_title, new_title, TextEmpty, TextEmpty, "")
    \/ \E old_name, new_name \in UserCalNames :
          user_menu_rename_calendar(old_name, new_name)
    \/ user_menu_invalid_choice

SpecUser == InitUser /\ [][NextUser]_vars

-----------------------------------------------------------------------------
(* One calendar: alice has created the calendar "work" and is in her menu, *)
(* where events are added, removed and updated.                            *)

InitCal ==
    /\ LET app   == create_user(CalendarsApp, "alice").self
           alice == create_calendar(app["alice"], "work").self
       IN  users = [app EXCEPT !["alice"] = alice]
    /\ pc = "user_menu"
    /\ cur = "alice"
    /\ out = Out("user_menu", "1", "Calendar created.", "True", "work", "")
    /\ lastCall = [n \in Usernames |-> IF n = "alice" THEN "create" ELSE "none"]
    /\ lost = <<>>

NextCal ==
    \/ \E title \in Titles, start_raw \in CalStarts, end_raw \in CalEnds :
          /\ user_menu_add_event("work", title, start_raw, end_raw, "")
          /\ TotalEvents(users') <= MaxEvents
    \/ \E evt_title \in Titles : user_menu_remove_event("work", evt_title)
    \/ \E evt_title \in Titles, new_title \in AppNewTitles,
          start_raw \in CalNewStarts, end_raw \in CalNewEnds,
          desc_str \in CalDescriptions :
          user_menu_update_event("work", evt_title, new_title, start_raw, end_raw,
                                 desc_str)
    \/ user_menu_list_calendars

SpecCal == InitCal /\ [][NextCal]_vars

-----------------------------------------------------------------------------
(* Vocabulary of the properties *)

\* the positions of the events of a calendar that carry exactly this title
Matching(calendar, title) ==
    {i \in 1..Len(calendar.events) : calendar.events[i].title = title}

\* the least element of a non-empty set of positions
Least(S) == CHOOSE i \in S : \A j \in S : i <= j

\* a sequence without its element at position m
Without(seq, m) ==
    [j \in 1..(Len(seq) - 1) |-> IF j < m THEN seq[j] ELSE seq[j + 1]]

\* every calendar of every user
AllCalendars ==
    UNION {{users[u].calendars[c] : c \in DOMAIN users[u].calendars} : u \in DOMAIN users}

\* 2024-01-01 09:00 and 2024-01-01 09:30
At0900 == [year |-> 2024, month |-> 1, day |-> 1, hour |-> 9, minute |-> 0]
At0930 == [year |-> 2024, month |-> 1, day |-> 1, hour |-> 9, minute |-> 30]

\* the typed texts that are no "YYYY-MM-DD HH:MM" time, and what the others mean
Malformed == {TextFeb30, TextNoTime, TextEmpty}
Meaning(text) == IF text = Text0900 THEN At0900 ELSE At0930

EventKeys == {"title", "start_time", "end_time", "description"}

\* keyword arguments for Calendar.update: any of the four keys, from two
\* full sets of values (an empty description may be given as well)
FullFields ==
    {[title |-> "lunch", start_time |-> At0930, end_time |-> At0900,
      description |-> "moved"],
     [title |-> "standup", start_time |-> At0900, end_time |-> At0930,
      description |-> ""]}
FieldChoices ==
    {[k \in K |-> full[k]] : K \in SUBSET EventKeys, full \in FullFields}

\* titles asked for: those in use, one that differs only in case, one unused
QueryTitles == Titles \cup {"Standup", "dentist"}

-----------------------------------------------------------------------------
(* C1 *)

\* C1: get_user(n) finds a user exactly when the last create_user/delete_user
\* call naming n was a create_user (none when n was never named or last
\* deleted); what it finds is the user stored under n, and the lookup leaves
\* the users as they are.
C1_GetUserFollowsLastCall ==
    \A n \in Usernames :
        LET r == get_user(users, n) IN
        /\ (r.ret # <<>>) <=> (lastCall[n] = "create")
        /\ r.ret # <<>> => r.ret = <<users[n]>> /\ users[n].username = n
        /\ r.self = users

\* bob was created and deleted, alice is there, and bob was just looked up
C1_Witness ==
    /\ lastCall["bob"] = "delete"
    /\ lastCall["alice"] = "create"
    /\ out.menu = "main" /\ out.choice = "2" /\ out.arg = "bob"
    /\ out.text = "No user found."

-----------------------------------------------------------------------------
(* C2 *)

\* C2: in every reachable state every calendar is stored under its own name,
\* and no calendar is stored under two keys of a user.
C2_KeyIsCalendarName ==
    \A u \in DOMAIN users :
        LET calendars == users[u].calendars IN
        /\ \A k \in DOMAIN calendars : calendars[k].name = k
        /\ \A k1, k2 \in DOMAIN calendars : k1 # k2 => calendars[k1] # calendars[k2]

\* right after a successful rename, next to another calendar of the user
C2_Witness ==
    /\ out.menu = "user_menu" /\ out.choice = "7" /\ out.ret = "True"
    /\ Cardinality(DOMAIN users[cur].calendars) = 2
    /\ users[cur].calendars[out.arg2].events # <<>>

-----------------------------------------------------------------------------
(* C3 *)

\* each mutating operation returns whether its precondition held, has its
\* effect when it returns true and leaves its receiver as it was when it
\* returns false
C3_ReturnsWhetherDone ==
    /\ \A n \in Usernames :
          LET c == create_user(users, n)
              d == delete_user(users, n)
          IN  /\ c.ret = (n \notin DOMAIN users)
              /\ c.ret => n \in DOMAIN c.self
              /\ ~c.ret => c.self = users
              /\ d.ret = (n \in DOMAIN users)
              /\ d.ret => n \notin DOMAIN d.self
              /\ ~d.ret => d.self = users
              \* created twice in a row: false, and as many users as before
              /\ LET again == create_user(c.self, n) IN
                 /\ again.ret = FALSE
                 /\ Cardinality(DOMAIN again.self) = Cardinality(DOMAIN c.self)
    /\ \A u \in DOMAIN users : \A n \in UserCalNames :
          LET user == users[u]
              has == n \in DOMAIN user.calendars
              c == create_calendar(user, n)
              d == remove_calendar(user, n)
          IN  /\ c.ret = ~has
              /\ c.ret => n \in DOMAIN c.self.calendars
              /\ ~c.ret => c.self = user
              /\ d.ret = has
              /\ d.ret => n \notin DOMAIN d.self.calendars
              /\ ~d.ret => d.self = user
              /\ \A m \in UserCalNames :
                    LET r == update_calendar_name(user, n, m) IN
                    /\ r.ret = (has /\ m \notin DOMAIN user.calendars)
                    /\ r.ret => n \notin DOMAIN r.self.calendars
                                /\ m \in DOMAIN r.self.calendars
                    /\ ~r.ret => r.self = user
    /\ \A calendar \in AllCalendars : \A t \in QueryTitles :
          LET found == Matching(calendar, t) # {}
              d == remove_event(calendar, t)
          IN  /\ d.ret = found
              /\ d.ret => Len(d.self.events) = Len(calendar.events) - 1
              /\ ~d.ret => d.self = calendar
              /\ \A fields \in FullFields \cup {EmptyDict} :
                    LET r == Calendar_update_event(calendar, t, fields) IN
                    /\ r.ret = found
                    /\ ~r.ret => r.self = calendar

\* a menu choice whose operation returned false leaves all users, calendars
\* and events as they were
C3_FalseChangesNothing == (out'.ret = "False") => (users' = users)

\* C3: every mutating operation returns true when its precondition held and
\* its effect occurred and false otherwise, and whenever one returns false
\* the whole state is as before the call.
C3_BooleanResults == [](C3_ReturnsWhetherDone) /\ [][C3_FalseChangesNothing]_vars

\* create_user has just returned false for a user who owns an event
C3_Witness ==
    /\ out.menu = "main" /\ out.choice = "1" /\ out.ret = "False"
    /\ out.arg \in DOMAIN users
    /\ EventsOf(users[out.arg]) > 0

-----------------------------------------------------------------------------
(* C4 *)

\* C4: remove(title) on a calendar with k >= 1 events of that title returns
\* true and deletes exactly the one at the lowest index, all others keeping
\* their order; with k = 0 it returns false (and changes nothing).  After
\* adding one event titled t to a calendar with none, remove(t) returns true
\* and a second remove(t) returns false.
C4_RemoveFirstMatch ==
    \A calendar \in AllCalendars : \A t \in QueryTitles :
        LET hits == Matching(calendar, t)
            r == remove_event(calendar, t)
        IN  /\ hits # {} =>
                 /\ r.ret = TRUE
                 /\ r.self.name = calendar.name
                 /\ r.self.events = Without(calendar.events, Least(hits))
                 /\ Cardinality(Matching(r.self, t)) = Cardinality(hits) - 1
            /\ hits = {} =>
                 /\ r.ret = FALSE
                 /\ r.self = calendar
                 /\ LET added == add_event(calendar, Event(t, At0900, At0930, "")).self
                        first == remove_event(added, t)
                        second == remove_event(first.self, t)
                    IN  /\ first.ret = TRUE
                        /\ first.self = calendar
                        /\ second.ret = FALSE

\* an event titled t was just removed; another one titled t and an event
\* with another title are still there
C4_Witness ==
    /\ out.menu = "user_menu" /\ out.choice = "5" /\ out.ret = "True"
    /\ LET calendar == users["alice"].calendars["work"] IN
       /\ Len(calendar.events) = 2
       /\ Matching(calendar, out.arg) # {}
       /\ \E i \in 1..2 : calendar.events[i].title # out.arg

-----------------------------------------------------------------------------
(* C5 *)

\* C5: update(title, fields) returns true iff some event has exactly that
\* title; then only the first such event changes, and in it only the
\* attributes given in fields, which take the given values.  Every other
\* event, and the number and order of the events, stay as they were.
C5_UpdateFirstMatchOnly ==
    \A calendar \in AllCalendars : \A t \in QueryTitles : \A fields \in FieldChoices :
        LET hits == Matching(calendar, t)
            r == Calendar_update_event(calendar, t, fields)
        IN  /\ r.ret = (hits # {})
            /\ r.self.name = calendar.name
            /\ Len(r.self.events) = Len(calendar.events)
            /\ \A i \in 1..Len(calendar.events) :
                  IF hits # {} /\ i = Least(hits)
                  THEN \A k \in EventKeys :
                          r.self.events[i][k] =
                             IF k \in DOMAIN fields THEN fields[k]
                             ELSE calendar.events[i][k]
                  ELSE r.self.events[i] = calendar.events[i]

\* "standup" was just updated, and two events titled "standup" that differ
\* are in the calendar
C5_Witness ==
    /\ out.menu = "user_menu" /\ out.choice = "6" /\ out.ret = "True"
    /\ out.arg = "standup"
    /\ LET calendar == users["alice"].calendars["work"] IN
       \E i, j \in Matching(calendar, "standup") :
           i < j /\ calendar.events[i] # calendar.events[j]

-----------------------------------------------------------------------------
(* C6 *)

\* C6: renaming a calendar to its own name returns false for every name,
\* whether or not a calendar of that name exists, and changes nothing.
C6_RenameToSelfFails ==
    \A u \in DOMAIN users : \A n \in UserCalNames \cup {"dentist"} :
        update_calendar_name(users[u], n, n) = [self |-> users[u], ret |-> FALSE]

\* an existing calendar was just renamed to its own name
C6_Witness ==
    /\ out.menu = "user_menu" /\ out.choice = "7"
    /\ out.arg = out.arg2
    /\ out.arg \in DOMAIN users[cur].calendars
    /\ users[cur].calendars[out.arg].events # <<>>

-----------------------------------------------------------------------------
(* C7 *)

\* what a menu step that renamed a calendar must have done
C7_RenameStep ==
    (out'.menu = "user_menu" /\ out'.choice = "7" /\ out'.ret = "True") =>
        LET old == out'.arg
            new == out'.arg2
            before == users[cur].calendars
            after == users'[cur].calendars
            again == create_calendar(users'[cur], old)
        IN  /\ old \in DOMAIN before /\ new \notin DOMAIN before /\ old # new
            /\ old \notin DOMAIN after
            /\ new \in DOMAIN after
            /\ after[new].events = before[old].events
            /\ after[new] = [before[old] EXCEPT !.name = new]
            /\ Cardinality(DOMAIN after) = Cardinality(DOMAIN before)
            /\ \A k \in DOMAIN before \ {old} : k \in DOMAIN after /\ after[k] = before[k]
            /\ again.ret = TRUE
            /\ DOMAIN again.self.calendars = DOMAIN after \cup {old}
            /\ again.self.calendars[old].events = <<>>
            /\ again.self.calendars[new] = after[new]

\* C7: when renaming old to new returns true, old was present, new absent
\* and old # new; afterwards nothing is under old, the calendar that was
\* under old is under new with its events, the user has as many calendars as
\* before and the others are unchanged; creating old then returns true and
\* gives an empty calendar next to the one under new.
C7_RenameMovesCalendar == [][C7_RenameStep]_vars

\* a calendar holding events was just renamed, next to another calendar
\* that holds events
C7_Witness ==
    /\ out.menu = "user_menu" /\ out.choice = "7" /\ out.ret = "True"
    /\ users[cur].calendars[out.arg2].events # <<>>
    /\ \E k \in DOMAIN users[cur].calendars \ {out.arg2} :
          users[cur].calendars[k].events # <<>>

-----------------------------------------------------------------------------
(* C8 *)

\* what a menu step may do to the sets of calendars and of users
C8_Step ==
    LET menu == out'.menu
        choice == out'.choice
        n == out'.arg
    IN
    \* remove_calendar(n) returned true: nothing is under n
    /\ (menu = "user_menu" /\ choice = "2" /\ out'.ret = "True") =>
          n \notin DOMAIN users'[cur].calendars
    \* create_calendar(n) with nothing under n: true, and a calendar without events
    /\ (menu = "user_menu" /\ choice = "1" /\ n \notin DOMAIN users[cur].calendars) =>
          /\ out'.ret = "True"
          /\ n \in DOMAIN users'[cur].calendars
          /\ users'[cur].calendars[n].events = <<>>
    \* any other choice creates no calendar, but for a rename under the new name
    /\ (pc = "user_menu" /\ pc' = "user_menu") =>
          \A k \in DOMAIN users'[cur].calendars \ DOMAIN users[cur].calendars :
              \/ menu = "user_menu" /\ choice = "1" /\ k = n
              \/ menu = "user_menu" /\ choice = "7" /\ k = out'.arg2
    \* delete_user(n) returned true: no user n
    /\ (menu = "main" /\ choice = "4" /\ out'.ret = "True") => n \notin DOMAIN users'
    \* create_user(n) with no user n: true, and a user without calendars
    /\ (menu = "main" /\ choice = "1" /\ n \notin DOMAIN users) =>
          /\ out'.ret = "True"
          /\ n \in DOMAIN users'
          /\ DOMAIN users'[n].calendars = {}
    \* any other choice creates no user
    /\ \A u \in DOMAIN users' \ DOMAIN users : menu = "main" /\ choice = "1" /\ u = n

\* C8: a removed calendar and a deleted user are gone, stay gone until they
\* are created again, and creating them again succeeds and gives an empty
\* calendar (an empty user), whatever the removed one held.
C8_DeletedThenFresh == [][C8_Step]_vars

\* a calendar was just created under the name of a calendar of this user
\* that was removed while it held events
C8_Witness ==
    /\ out.menu = "user_menu" /\ out.choice = "1" /\ out.ret = "True"
    /\ lost = <<cur, out.arg>>
    /\ users[cur].calendars[out.arg].events = <<>>

-----------------------------------------------------------------------------
(* C9 *)

\* what a step of a user's menu may do
C9_Step ==
    /\ (out'.menu = "user_menu" /\ out'.choice = "1") =>
          ((out'.ret = "True") <=> (out'.arg \notin DOMAIN users[cur].calendars))
    /\ pc = "user_menu" =>
          /\ DOMAIN users' = DOMAIN users
          /\ \A u \in DOMAIN users \ {cur} : users'[u] = users[u]

\* C9: create_calendar(n) on a user returns true iff that user has no
\* calendar named n, whatever the other users have; and no choice of a
\* user's menu changes anything of another user.
C9_PerUserNames == [][C9_Step]_vars

\* alice just created a calendar under a name under which bob has a
\* calendar holding an event
C9_Witness ==
    /\ out.menu = "user_menu" /\ out.choice = "1" /\ out.ret = "True"
    /\ cur = "alice"
    /\ "bob" \in DOMAIN users
    /\ out.arg \in DOMAIN users["bob"].calendars
    /\ users["bob"].calendars[out.arg].events # <<>>

-----------------------------------------------------------------------------
(* C10 *)

\* what the two flows do with the texts typed for the times, in every state
C10_FlowsParse ==
    /\ \A calendar \in AllCalendars : \A i \in 1..Len(calendar.events) :
          /\ calendar.events[i].start_time \in {At0900, At0930}
          /\ calendar.events[i].end_time \in {At0900, At0930}
    /\ \A u \in DOMAIN users : \A c \in DOMAIN users[u].calendars :
          LET user == users[u]
              calendar == user.calendars[c]
          IN
          /\ \A title \in Titles, s, e \in Texts, d \in CalDescriptions :
                LET r == user_menu_4(user, c, title, s, e, d) IN
                IF s \in Malformed \/ e \in Malformed
                THEN r.self = user
                ELSE r.self.calendars[c].events =
                        Append(calendar.events, Event(title, Meaning(s), Meaning(e), d))
          /\ \A new_title \in AppNewTitles, s, e \in Texts, d \in CalDescriptions :
                LET fields == update_fields_of(new_title, s, e, d) IN
                /\ ("title" \in DOMAIN fields) <=> (new_title # "")
                /\ ("start_time" \in DOMAIN fields) <=> (s \notin Malformed)
                /\ ("end_time" \in DOMAIN fields) <=> (e \notin Malformed)
                /\ ("description" \in DOMAIN fields) <=> (d # "")
                /\ DOMAIN fields \subseteq EventKeys
                /\ \A t \in Titles :
                      LET r == user_menu_6(user, c, t, new_title, s, e, d)
                          hits == Matching(calendar, t)
                      IN
                      /\ Len(r.self.calendars[c].events) = Len(calendar.events)
                      /\ hits # {} =>
                            LET was == calendar.events[Least(hits)]
                                now == r.self.calendars[c].events[Least(hits)]
                            IN  /\ now.title = IF new_title = "" THEN was.title
                                               ELSE new_title
                                /\ now.start_time = IF s \in Malformed THEN was.start_time
                                                    ELSE Meaning(s)
                                /\ now.end_time = IF e \in Malformed THEN was.end_time
                                                  ELSE Meaning(e)
                                /\ now.description = IF d = "" THEN was.description
                                                     ELSE d

\* a refused time in the add-event flow changes nothing and the menu of the
\* same user prompts again
C10_RefusalContinues ==
    (out'.menu = "user_menu" /\ out'.choice = "4"
       /\ out'.text = "Invalid date/time format.") =>
        (users' = users /\ pc' = "user_menu" /\ cur' = cur)

\* C10: no event ever holds a time that is not a real date and time.  In
\* the add-event flow a start or end text that does not parse means no
\* event is added and no calendar changes.  In the update-event flow the
\* fields passed to Calendar.update hold the title and the description when
\* they are not empty and each time when its text parses (with the time it
\* means), and nothing else; so a time that does not parse keeps its old
\* value while the other answers are applied.  After a refused time the
\* menu loop goes on.
C10_MenuParsesTimes == [](C10_FlowsParse) /\ [][C10_RefusalContinues]_vars

\* the add-event flow has just refused a time, in a calendar that holds an
\* event whose start was updated and whose description was set
C10_Witness ==
    /\ out.menu = "user_menu" /\ out.choice = "4"
    /\ out.text = "Invalid date/time format."
    /\ LET calendar == users["alice"].calendars["work"] IN
       \E i \in 1..Len(calendar.events) :
          /\ calendar.events[i].start_time = At0930
          /\ calendar.events[i].description = "sync"

=============================================================================
